---- MODULE Spec2Model ----
(***************************************************************************)
(* Model of the build processor that obpcreator packs into every OBF       *)
(* archive (LUA_SCRIPT in src/obpcreator/obf/cli.py): the wait primitive,  *)
(* start heat, the layer loop with its arc-trip retry loop, and teardown,  *)
(* run against a machine whose answers are nondeterministic and an         *)
(* operator who may publish the two MQTT parameters at any moment.         *)
(*                                                                         *)
(* Time is counted in ticks of half a second, the smallest interval the    *)
(* script sleeps for.  os.time() has a resolution of one second.  The      *)
(* script compares os.time() only with a deadline taken in the same call   *)
(* of wait, so the clock is re-based to 0 when a wait call has returned.   *)
(*                                                                         *)
(* Two parts of convert(), which makes the archive, are modelled on their  *)
(* own: the loop that makes the layers of buildInfo.json, and the walk     *)
(* over the input directory that collects the obp files and refuses        *)
(* duplicate basenames, followed by the writing of the archive.            *)
(***************************************************************************)
EXTENDS Integers, Sequences, FiniteSets, TLC

VARIABLES
    pc,                     \* position of the script
    build_info,             \* obf.get_build_info(), read once (line 61)
    params,                 \* MQTT Parameters/Name/<name>."repetitions"
    clock,                  \* wall clock, in ticks
    deadline,               \* wait: local deadline (seconds)
    interval,               \* wait: local interval (ticks)
    waitFor,                \* wait: the predicate of the active call
    waitResult,             \* wait: <<>> while running, <<b>> once returned
    ret,                    \* wait_for_beam_power_low: where its caller goes on
    index,                  \* for-loop index of the current layer
    layerDone,              \* local layerDone
    retryCount,             \* local retryCount
    newPowderLayer,         \* global newPowderLayer, <<>> while nil
    err_id,                 \* local err_id, <<>> while unset
    currentJumpSafeReps,    \* local, <<>> while unset
    heatBalanceRepetitions, \* local, <<>> while unset
    jumpSafePatterns,
    spatterSafePatterns,
    meltPatterns,
    heatBalancePatterns,
    message,                \* logfatal: its formatted message
    raised,                 \* the error the script ended with, <<>> if none
    layersTrace,            \* BuildStatus/Trace/Layers publications, in order
    activity,               \* last BuildStatus/Trace/Activity publication
    lastCall,               \* the most recent call of the machine API
    recoatCount,            \* calls of machine.recoat_cycle so far
    exposureCount,          \* calls of start_process_step_exposures so far,
                            \* counted up to one more than the plan has layers
    layerExposures,         \* ... of them for the current layer
    fieldReads,             \* mqtt.get_field calls in the current attempt
    probe,                  \* wait on its own: the predicate and the counts
    convert                 \* convert(): its locals, the input directory as
                            \* os.walk lists it, and the file at output_obf

waitVars == <<deadline, interval, waitFor, waitResult, ret>>
loopVars == <<index, layerDone, retryCount, newPowderLayer, err_id>>
attemptVars == <<currentJumpSafeReps, heatBalanceRepetitions, jumpSafePatterns,
                 spatterSafePatterns, meltPatterns, heatBalancePatterns, fieldReads>>
fatalVars == <<message, raised>>
traceVars == <<layersTrace, activity>>
machineVars == <<lastCall, recoatCount, exposureCount, layerExposures>>

archiveVars == <<convert, build_info>>
scriptVars == <<pc, build_info, params, clock, waitVars, loopVars, attemptVars,
                fatalVars, traceVars, machineVars, probe>>

vars == <<convert, scriptVars>>

----------------------------------------------------------------------------
(* Bounds of the model *)

MaxLayers == 3          \* plans have 1..MaxLayers layers
StartHeatTimeout == 2   \* startHeat.timeout of the plans, in seconds
MaxTimeout == 5         \* wait on its own: timeouts 1..MaxTimeout seconds
MaxTrueAfter == 3       \* wait on its own: predicate true after 0..MaxTrueAfter s
MaxFiles == 3           \* convert: the walk lists 0..MaxFiles files
MaxBuildLayers == 3     \* convert: build.layers is 0..MaxBuildLayers
MaxBossFiles == 2       \* convert: build.files has 0..MaxBossFiles entries

(* Program constants *)

TicksPerSecond == 2
DefaultInterval == 1
BeamPowerLowTimeout == 30
RestartTimeout == 60
ForeverRepetitions == "4294967295"   \* beyond the integers of TLC
maxRetryCount == 10
ConfiguredRepetitions == build_info.layers[1].jumpSafe[1].repetitions

(* lines 87, 93: the value published at the start *)
DefaultRepetitions == 0

PreHeatRepetitions == "PreHeatRepetitions"
PostHeatRepetitions == "PostHeatRepetitions"

(* Values the operator publishes *)
OperatorValues == [PreHeatRepetitions |-> {0, 7}, PostHeatRepetitions |-> {0, 3}]

Ticks(seconds) == seconds * TicksPerSecond

(* os.time(): whole seconds *)
OsTime(c) == c \div TicksPerSecond

----------------------------------------------------------------------------
(* Build plans.  A layer is a Lua table: a group that is nil is no key. *)

Obp(f, r) == [file |-> f, repetitions |-> r]

LayerA == [jumpSafe |-> <<Obp("obp/preheat.obp", 2)>>,
           melt |-> <<Obp("obp/a.obp", 1)>>,
           heatBalance |-> <<Obp("obp/postheat.obp", 5)>>]

LayerB == [spatterSafe |-> <<Obp("obp/spatter.obp", 1)>>,
           melt |-> <<Obp("obp/a.obp", 1), Obp("obp/b.obp", 1)>>]

Plan(n) == [startHeat |-> [file |-> "obp/startheat.obp",
                           temperatureSensor |-> "Sensor1",
                           targetTemperature |-> 700,
                           timeout |-> StartHeatTimeout],
            layerDefaults |-> [layerFeed |-> "layerfeed"],
            layers |-> [k \in 1..n |-> IF k % 2 = 1 THEN LayerA ELSE LayerB]]

BuildPlans == {Plan(n) : n \in 1..MaxLayers}

num_layers == Len(build_info.layers)

layer == build_info.layers[index]

Group(l, g) == IF g \in DOMAIN l THEN l[g] ELSE <<>>

----------------------------------------------------------------------------
(* Messages *)

MsgFailedToStartBeam == "Build Error: Failed to start beam"
MsgTargetTemperature == "Build Error: Failed to reach target temperature"
MsgClearQueue == "Build Error: Failed to clear exposure queue"
MsgLayerfeed == "Build Error: Unable to complete Layerfeed."
MsgBeamOn == "Build Error: Timeout waiting for beam on"
MsgArcTrip == "Build Error: Unable to recover from arc trip"
MsgMaxRetry == "Build Error: Maximum retry count exceeded!"
MsgBeamPowerLow == "Build Aborted: BeamPowerLow condition timed out"

ArcTripMessage(e) ==
    CASE e = 1 -> "Arc trip during Jump Safe exposure"
      [] e = 2 -> "Arc trip during Spatter Safe exposure"
      [] e = 3 -> "Arc trip during Melt exposure"
      [] e = 4 -> "Arc trip during Heat Balance exposure"

(* A call of the machine API: result is <<>> where the script drops it *)
Call(op, arg, result) == [op |-> op, arg |-> arg, result |-> result]

(* Answers of the machine *)
HvCurrents == {<<>>, <<1>>, <<2>>}
Temperatures == {<<>>, <<699>>, <<700>>}
ExposureResults == 0..4

----------------------------------------------------------------------------
(* The pure parts of the script *)

WaitTimedOutLate(now, dl) == now > dl

(* line 28: if os.time() >= deadline then return false *)
WaitTimedOut(now, dl) == now >= dl

(* lines 37-38 *)
BeamPowerIsLow(hv_current) == hv_current # <<>> /\ hv_current[1] <= 1

(* lines 110-111 *)
TemperatureReached(temperature, target) ==
    temperature # <<>> /\ temperature[1] >= target

PreheatRaisesWhenBeamOff(beamOn, restarted) == ~beamOn

(* lines 107-109: the preheat predicate calls logfatal *)
PreheatRaises(beamOn, restarted) == ~beamOn /\ ~restarted

JumpSafeRepsAbsolute(current, configured) == current

(* line 166 *)
JumpSafeReps(current, configured) == current + configured

(* line 199 *)
HeatBalanceReps(configured, current) == configured + current

(* lines 164-168 *)
JumpSafeList(l, current) ==
    IF "jumpSafe" \in DOMAIN l
    THEN [i \in 1..Len(l.jumpSafe) |->
            Obp(l.jumpSafe[i].file, JumpSafeReps(current, l.jumpSafe[i].repetitions))]
    ELSE <<>>

(* lines 149, 172-176: the spatter safe branch fills meltPatterns *)
SpatterSafeList(l) == <<>>

(* lines 172-181 *)
MeltList(l) ==
    LET copy == [i \in 1..Len(l.melt) |-> Obp(l.melt[i].file, l.melt[i].repetitions)]
    IN  (IF "spatterSafe" \in DOMAIN l THEN copy ELSE <<>>) \o copy

(* lines 196-201 *)
HeatBalanceList(l, current) ==
    IF "heatBalance" \in DOMAIN l
    THEN [i \in 1..Len(l.heatBalance) |->
            Obp(l.heatBalance[i].file,
                HeatBalanceReps(l.heatBalance[i].repetitions, current))]
    ELSE <<>>

LayerDoneOnlyOnSuccess(e) == e = 0

(* lines 207-225: layerDone after the result e *)
LayerDoneAfter(e) == e = 0 \/ e = 4

NewPowderKeptOnJumpSafeTrip(e, previous) ==
    IF e \in {0, 1} THEN previous ELSE <<e = 3>>

(* lines 207-225: newPowderLayer after the result e; a success leaves it *)
NewPowderAfter(e, previous) == IF e = 0 THEN previous ELSE <<e = 3>>

RetryCountNeverIncremented(count, done) == count

RetryCountAlwaysIncremented(count, done) == count + 1

(* lines 232-234 *)
NextRetryCount(count, done) == IF ~done THEN count + 1 ELSE count

RetryBoundOffByOne(count) == count > maxRetryCount + 1

(* line 235 *)
RetryBoundExceeded(count) == count > maxRetryCount

HasNextLayerButLast(i) == i + 1 < Len(build_info.layers)

(* line 121: ipairs(build_info.layers) has an entry after entry i *)
HasNextLayer(i) == i < num_layers

GetFieldOncePerLayer(name) ==
    IF name = PreHeatRepetitions /\ currentJumpSafeReps # <<>>
    THEN currentJumpSafeReps[1]
    ELSE params[name][1]

(* lines 160, 192: mqtt.get_field(topic, "repetitions") *)
GetField(name) == params[name][1]

----------------------------------------------------------------------------
(* convert(input_dir, output_obf, name), from the walk over the input
   directory (line 388) to the closed archive (line 431).

   A file name is a stem and an extension; a path is a sequence of names.
   The file at output_obf is <<>> while there is none, else <<entries>>
   with the names of the archive's entries in the order written. *)

Name(stem, ext) == [stem |-> stem, ext |-> ext]

input_dir == <<Name("boss", "")>>

(* the directories os.walk visits, top down *)
Roots == <<input_dir, Append(input_dir, Name("sub", ""))>>

FileNames == {Name("a", "obp"), Name("a", "gz"), Name("b", "obp"), Name("notes", "txt")}

(* what one iteration of the two for loops of lines 390-391 sees *)
Walked == [root : {Roots[k] : k \in DOMAIN Roots}, file : FileNames]

RootOrder(root) == CHOOSE k \in DOMAIN Roots : Roots[k] = root

(* os.walk: every file once, the files of one directory together, the
   directories top down, the files of a directory in any order *)
Walks ==
    {w \in UNION {[1..n -> Walked] : n \in 0..MaxFiles} :
        \A i, j \in DOMAIN w :
           i < j => w[i] # w[j] /\ RootOrder(w[i].root) <= RootOrder(w[j].root)}

(* str.endswith, line 392 *)
EndsWith(file, suffix) == file.ext = suffix

IsObpOnly(file) == EndsWith(file, "obp")

(* line 392 *)
IsObpOrGz(file) == EndsWith(file, "obp") \/ EndsWith(file, "gz")

(* os.path.join, line 393 *)
Join(root, file) == Append(root, file)

(* os.path.basename, lines 394, 425: the last name of a path *)
Basename(path) == path[Len(path)]

(* lines 404-418: the entries written before the obp files *)
FixedEntries ==
    << <<Name("manifest", "json")>>,
       <<Name("buildProcessors", "json")>>,
       <<Name("dependencies", "json")>>,
       <<Name("buildProcessors", ""), Name("default", ""), Name("build", "lua")>>,
       <<Name("buildInfo", "json")>> >>

(* line 425: the entry of an obp file *)
ObpEntry(obp) == <<Name("obp", ""), Basename(obp)>>

(* a file that may be at output_obf before convert is called *)
OldArchive == << <<Name("old", "json")>> >>

MsgDuplicate(basename) == <<"Duplicate file name found", basename>>

(* the melt files the build description names, lines 367-386; an entry of
   build.files is one file or a list of files *)
BossFile(stem) == <<Name("layers", ""), Name(stem, "obp")>>

BossEntry(isList, value) == [isList |-> isList, value |-> value]

BossEntries ==
    {BossEntry(FALSE, <<BossFile("a")>>),
     BossEntry(FALSE, <<BossFile("b")>>),
     BossEntry(TRUE, <<BossFile("a"), BossFile("b")>>)}

BossFileLists == UNION {[1..n -> BossEntries] : n \in 0..MaxBossFiles}

(* lines 344-352: the preheat and postheat patterns every layer gets *)
jump_safe_dict == [file |-> <<Name("obp", ""), Name("preheat", "obp")>>, repetitions |-> 2]

heat_balance_dict == [file |-> <<Name("obp", ""), Name("postheat", "obp")>>, repetitions |-> 5]

(* line 372: files = boss_layer if isinstance(boss_layer, list) else [boss_layer] *)
LayerFiles(boss_layer) ==
    IF boss_layer.isList THEN boss_layer.value ELSE <<boss_layer.value[1]>>

(* lines 379-383: file_dict of one melt file *)
FileDict(file) == [file |-> <<Name("obp", ""), Basename(file)>>, repetitions |-> 1]

(* lines 373-385: the layer made of one entry of build.files *)
BossLayer(boss_layer) ==
    [jumpSafe |-> <<jump_safe_dict>>,
     melt |-> [i \in 1..Len(LayerFiles(boss_layer)) |->
                 FileDict(LayerFiles(boss_layer)[i])],
     heatBalance |-> <<heat_balance_dict>>]

(* line 367: the test of the while loop *)
WhileLayersTest(layers, build_layers) == Len(layers) < build_layers

(* line 369: the test before the break *)
BreakTest(layers, build_layers) == Len(layers) >= build_layers

(* the layer loop has made one layer of one file *)
LayersBuilt ==
    [build_layers |-> 1,
     files |-> <<BossEntry(FALSE, <<BossFile("a")>>)>>,
     layers |-> <<BossLayer(BossEntry(FALSE, <<BossFile("a")>>))>>,
     file |-> 2]

(* convert is not running: the script runs from an archive made before *)
Converted ==
    [at |-> "returned", build_layers |-> LayersBuilt.build_layers,
     files |-> LayersBuilt.files, layers |-> LayersBuilt.layers,
     file |-> LayersBuilt.file, walk |-> <<>>, next |-> 1, basenames |-> {},
     obp_files |-> <<>>, written |-> 0, output_obf |-> <<FixedEntries>>,
     error |-> <<>>]

----------------------------------------------------------------------------
(* Initial state: the script is about to run line 61 *)

NoProbe == [start |-> 0, evals |-> 0, sleeps |-> 0, trueAfter |-> <<>>]

InitCommon ==
    /\ deadline = 0 /\ interval = 0 /\ waitResult = <<>> /\ ret = "none"
    /\ index = 0 /\ layerDone = FALSE /\ retryCount = 0
    /\ newPowderLayer = <<>> /\ err_id = <<>>
    /\ currentJumpSafeReps = <<>> /\ heatBalanceRepetitions = <<>>
    /\ jumpSafePatterns = <<>> /\ spatterSafePatterns = <<>>
    /\ meltPatterns = <<>> /\ heatBalancePatterns = <<>>
    /\ fieldReads = [n \in {PreHeatRepetitions, PostHeatRepetitions} |-> 0]
    /\ message = "" /\ raised = <<>>
    /\ layersTrace = <<>> /\ activity = ""
    /\ lastCall = Call("none", <<>>, <<>>)
    /\ recoatCount = 0 /\ exposureCount = 0 /\ layerExposures = 0

Init ==
    /\ convert = Converted
    /\ pc = "start"
    /\ build_info \in BuildPlans
    /\ params = [n \in {PreHeatRepetitions, PostHeatRepetitions} |-> <<>>]
    /\ clock \in 0..(TicksPerSecond - 1)
    /\ waitFor = "none"
    /\ probe = NoProbe
    /\ InitCommon

----------------------------------------------------------------------------
(* convert, lines 367-386: the layers of buildInfo.json are made *)

InitLayers ==
    /\ convert \in [at : {"while_layers"}, build_layers : 0..MaxBuildLayers,
                    files : BossFileLists, layers : {<<>>}, file : {1},
                    walk : {<<>>}, next : {1}, basenames : {{}},
                    obp_files : {<<>>}, written : {0},
                    output_obf : {<<>>}, error : {<<>>}]
    /\ pc = "packed"
    /\ build_info = Plan(1)
    /\ params = [n \in {PreHeatRepetitions, PostHeatRepetitions} |-> <<>>]
    /\ clock = 0
    /\ waitFor = "none"
    /\ probe = NoProbe
    /\ InitCommon

(* line 367: the while loop is entered, or left for line 388 *)
WhileLayers ==
    /\ convert.at = "while_layers"
    /\ IF WhileLayersTest(convert.layers, convert.build_layers)
       THEN convert' = [convert EXCEPT !.at = "for_files", !.file = 1]
       ELSE convert' = [convert EXCEPT !.at = "walk"]
    /\ UNCHANGED scriptVars

(* lines 368-386: one entry of build.files, the break, or the end of the
   for loop *)
ForFiles ==
    /\ convert.at = "for_files"
    /\ IF convert.file > Len(convert.files)
       THEN convert' = [convert EXCEPT !.at = "while_layers"]
       ELSE IF BreakTest(convert.layers, convert.build_layers)
       THEN convert' = [convert EXCEPT !.at = "while_layers"]
       ELSE convert' = [convert EXCEPT
                          !.layers = Append(@, BossLayer(convert.files[convert.file])),
                          !.file = @ + 1]
    /\ UNCHANGED scriptVars

NextLayers ==
    \/ WhileLayers
    \/ ForFiles

(* the interpreter runs the loop as long as it has a step to take *)
SpecLayers == InitLayers /\ [][NextLayers]_vars /\ WF_vars(NextLayers)

----------------------------------------------------------------------------
(* convert, lines 388-431 *)

(* the script is packed but does not run *)
InitConvert ==
    /\ convert \in [at : {"walk"}, build_layers : {LayersBuilt.build_layers},
                    files : {LayersBuilt.files}, layers : {LayersBuilt.layers},
                    file : {LayersBuilt.file},
                    walk : Walks, next : {1}, basenames : {{}},
                    obp_files : {<<>>}, written : {0},
                    output_obf : {<<>>, <<OldArchive>>}, error : {<<>>}]
    /\ pc = "packed"
    /\ build_info = Plan(1)
    /\ params = [n \in {PreHeatRepetitions, PostHeatRepetitions} |-> <<>>]
    /\ clock = 0
    /\ waitFor = "none"
    /\ probe = NoProbe
    /\ InitCommon

(* lines 390-397: one file of the walk *)
WalkFile ==
    /\ convert.at = "walk"
    /\ convert.next <= Len(convert.walk)
    /\ LET root == convert.walk[convert.next].root
           file == convert.walk[convert.next].file
           full_path == Join(root, file)
           basename == Basename(<<file>>)
       IN  IF ~IsObpOrGz(file)
           THEN convert' = [convert EXCEPT !.next = @ + 1]
           ELSE IF basename \in convert.basenames
           THEN convert' = [convert EXCEPT !.at = "raised",
                                           !.error = MsgDuplicate(basename)]
           ELSE convert' = [convert EXCEPT !.next = @ + 1,
                                           !.basenames = @ \cup {basename},
                                           !.obp_files = Append(@, full_path)]
    /\ UNCHANGED scriptVars

(* lines 399-402: the walk is over, the archive is opened for writing *)
OpenArchive ==
    /\ convert.at = "walk"
    /\ convert.next > Len(convert.walk)
    /\ convert' = [convert EXCEPT !.at = "write", !.output_obf = << <<>> >>]
    /\ UNCHANGED scriptVars

(* lines 403-418: manifest, build processors, dependencies, script, plan *)
WriteEntries ==
    /\ convert.at = "write"
    /\ convert' = [convert EXCEPT !.at = "write_obp",
                                  !.output_obf = <<@[1] \o FixedEntries>>]
    /\ UNCHANGED scriptVars

(* lines 420-429: one obp file is copied *)
WriteObp ==
    /\ convert.at = "write_obp"
    /\ convert.written < Len(convert.obp_files)
    /\ LET obp == convert.obp_files[convert.written + 1]
       IN  convert' = [convert EXCEPT !.written = @ + 1,
                                      !.output_obf = <<Append(@[1], ObpEntry(obp))>>]
    /\ UNCHANGED scriptVars

(* lines 402, 431: the with block is left, convert returns *)
CloseArchive ==
    /\ convert.at = "write_obp"
    /\ convert.written = Len(convert.obp_files)
    /\ convert' = [convert EXCEPT !.at = "returned"]
    /\ UNCHANGED scriptVars

NextConvert ==
    \/ WalkFile
    \/ OpenArchive
    \/ WriteEntries
    \/ WriteObp
    \/ CloseArchive

SpecConvert == InitConvert /\ [][NextConvert]_vars

----------------------------------------------------------------------------
(* The operator publishes a parameter, at any moment *)

OperatorPublish ==
    /\ \E n \in {PreHeatRepetitions, PostHeatRepetitions} :
         \E v \in OperatorValues[n] : params' = [params EXCEPT ![n] = <<v>>]
    /\ UNCHANGED <<pc, archiveVars, clock, waitVars, loopVars, attemptVars,
                   fatalVars, traceVars, machineVars, probe>>

----------------------------------------------------------------------------
(* wait(predicate, timeout, settings), lines 20-33 *)

(* lines 21-25: the call, up to the first test of the loop *)
WaitCall(predicate, timeout, ivl) ==
    /\ waitFor' = predicate
    /\ interval' = ivl
    /\ deadline' = OsTime(clock) + timeout
    /\ waitResult' = <<>>
    /\ probe' = [probe EXCEPT !.start = clock, !.evals = 0, !.sleeps = 0]
    /\ pc' = "wait_predicate"

(* lines 26, 32: the predicate answered b *)
WaitTest(b) ==
    /\ probe' = [probe EXCEPT !.evals = @ + 1]
    /\ IF b
       THEN pc' = "wait_return" /\ waitResult' = <<TRUE>>
       ELSE pc' = "wait_sleep" /\ waitResult' = waitResult

(* lines 27-30 *)
WaitSleep ==
    /\ pc = "wait_sleep"
    /\ clock' = clock + interval
    /\ probe' = [probe EXCEPT !.sleeps = @ + 1]
    /\ IF WaitTimedOut(OsTime(clock'), deadline)
       THEN pc' = "wait_return" /\ waitResult' = <<FALSE>>
       ELSE pc' = "wait_predicate" /\ waitResult' = waitResult
    /\ UNCHANGED <<archiveVars, params, deadline, interval, waitFor, ret, loopVars,
                   attemptVars, fatalVars, traceVars, machineVars>>

(* the caller has the result: the frame of wait is gone *)
WaitEnd ==
    /\ waitFor' = "none" /\ deadline' = 0 /\ interval' = 0 /\ waitResult' = <<>>
    /\ clock' = 0
    /\ probe' = NoProbe

(* logfatal(message), lines 55-56 *)
Logfatal(msg) ==
    /\ message' = msg
    /\ activity' = msg
    /\ pc' = "logfatal_clear"

----------------------------------------------------------------------------
(* The script, lines 61-250 *)

(* lines 61-82: read the plan, publish layer 0 of n, subscribe *)
PublishLayers ==
    /\ pc = "start"
    /\ layersTrace' = Append(layersTrace,
                             [build_layers |-> num_layers, current_layer |-> 0])
    /\ pc' = "publish_preheat"
    /\ UNCHANGED <<archiveVars, params, clock, waitVars, loopVars, attemptVars,
                   fatalVars, activity, machineVars, probe>>

(* lines 84-89 *)
PublishPreHeat ==
    /\ pc = "publish_preheat"
    /\ params' = [params EXCEPT ![PreHeatRepetitions] = <<DefaultRepetitions>>]
    /\ pc' = "publish_postheat"
    /\ UNCHANGED <<archiveVars, clock, waitVars, loopVars, attemptVars,
                   fatalVars, traceVars, machineVars, probe>>

(* lines 90-94 *)
PublishPostHeat ==
    /\ pc = "publish_postheat"
    /\ params' = [params EXCEPT ![PostHeatRepetitions] = <<DefaultRepetitions>>]
    /\ pc' = "turn_on_beam"
    /\ UNCHANGED <<archiveVars, clock, waitVars, loopVars, attemptVars,
                   fatalVars, traceVars, machineVars, probe>>

(* lines 97-102 *)
TurnOnBeam ==
    /\ pc = "turn_on_beam"
    /\ \E beamOn \in BOOLEAN, restarted \in BOOLEAN :
         /\ lastCall' = IF beamOn THEN Call("beam_is_on", <<>>, <<TRUE>>)
                        ELSE Call("restartHV", <<RestartTimeout>>, <<restarted>>)
         /\ IF ~beamOn /\ ~restarted
            THEN Logfatal(MsgFailedToStartBeam)
            ELSE /\ activity' = "The beam is active"
                 /\ pc' = "start_heat"
                 /\ UNCHANGED message
    /\ UNCHANGED <<archiveVars, params, clock, waitVars, loopVars, attemptVars,
                   raised, layersTrace, recoatCount, exposureCount, layerExposures,
                   probe>>

(* lines 103-106: start the heating exposure and call wait *)
StartHeat ==
    /\ pc = "start_heat"
    /\ activity' = "Start heating to target temperature"
    /\ lastCall' = Call("start_exposure",
                        <<build_info.startHeat.file, ForeverRepetitions>>, <<>>)
    /\ WaitCall("preheat", build_info.startHeat.timeout, 1)
    /\ UNCHANGED <<archiveVars, params, clock, ret, loopVars, attemptVars,
                   fatalVars, layersTrace, recoatCount, exposureCount,
                   layerExposures>>

(* lines 26, 107-111: the predicate of the preheat wait *)
PreheatPredicate ==
    /\ pc = "wait_predicate"
    /\ waitFor = "preheat"
    /\ \E beamOn \in BOOLEAN, restarted \in BOOLEAN, temperature \in Temperatures :
         IF PreheatRaises(beamOn, restarted)
         THEN /\ lastCall' = Call("restartHV", <<RestartTimeout>>, <<restarted>>)
              /\ Logfatal(MsgFailedToStartBeam)
              /\ UNCHANGED <<waitResult, probe>>
         ELSE /\ lastCall' = Call("get_temperature",
                                  <<build_info.startHeat.temperatureSensor>>,
                                  temperature)
              /\ WaitTest(TemperatureReached(temperature,
                                             build_info.startHeat.targetTemperature))
              /\ UNCHANGED <<message, activity>>
    /\ UNCHANGED <<archiveVars, params, clock, deadline, interval, waitFor, ret,
                   loopVars, attemptVars, raised, layersTrace, recoatCount,
                   exposureCount, layerExposures>>

(* lines 106, 112-114: wait has returned to start heat *)
PreheatReturn ==
    /\ pc = "wait_return"
    /\ waitFor = "preheat"
    /\ IF waitResult = <<TRUE>>
       THEN pc' = "clear_queue" /\ UNCHANGED <<message, activity>>
       ELSE Logfatal(MsgTargetTemperature)
    /\ WaitEnd
    /\ UNCHANGED <<archiveVars, params, ret, loopVars, attemptVars, raised,
                   layersTrace, machineVars>>

(* a start heat that goes on whether or not the queue was cleared *)
ClearQueueIgnoresFailure ==
    /\ pc = "clear_queue"
    /\ \E cleared \in BOOLEAN :
         /\ lastCall' = Call("clear_exposure_queue", <<>>, <<cleared>>)
         /\ pc' = "for_layers"
         /\ UNCHANGED <<message, activity>>
    /\ UNCHANGED <<archiveVars, params, clock, waitVars, loopVars, attemptVars,
                   raised, layersTrace, recoatCount, exposureCount, layerExposures,
                   probe>>

(* lines 115-117 *)
ClearQueue ==
    /\ pc = "clear_queue"
    /\ \E cleared \in BOOLEAN :
         /\ lastCall' = Call("clear_exposure_queue", <<>>, <<cleared>>)
         /\ IF cleared
            THEN pc' = "for_layers" /\ UNCHANGED <<message, activity>>
            ELSE Logfatal(MsgClearQueue)
    /\ UNCHANGED <<archiveVars, params, clock, waitVars, loopVars, attemptVars,
                   raised, layersTrace, recoatCount, exposureCount, layerExposures,
                   probe>>

(* lines 121-128: the next layer, up to the call of wait *)
NextLayer ==
    /\ pc = "for_layers"
    /\ HasNextLayer(index)
    /\ index' = index + 1
    /\ layersTrace' = Append(layersTrace,
                             [build_layers |-> num_layers, current_layer |-> index + 1])
    /\ activity' = "Waiting for beam power low"
    /\ layerExposures' = 0
    /\ ret' = "recoat"
    /\ WaitCall("beam_power_low", BeamPowerLowTimeout, Ticks(DefaultInterval))
    /\ UNCHANGED <<archiveVars, params, clock, layerDone, retryCount, newPowderLayer,
                   err_id, attemptVars, fatalVars, lastCall, recoatCount,
                   exposureCount>>

(* lines 26, 36-39: the predicate of wait_for_beam_power_low *)
BeamPowerLowPredicate ==
    /\ pc = "wait_predicate"
    /\ waitFor = "beam_power_low"
    /\ \E hv_current \in HvCurrents :
         /\ lastCall' = Call("get_hv_current", <<>>, hv_current)
         /\ WaitTest(BeamPowerIsLow(hv_current))
    /\ UNCHANGED <<archiveVars, params, clock, deadline, interval, waitFor, ret,
                   loopVars, attemptVars, fatalVars, traceVars, recoatCount,
                   exposureCount, layerExposures>>

(* a wait_for_beam_power_low that goes on whatever wait answered *)
BeamPowerLowReturnIgnoresTimeout ==
    /\ pc = "wait_return"
    /\ waitFor = "beam_power_low"
    /\ pc' = ret
    /\ ret' = "none"
    /\ WaitEnd
    /\ UNCHANGED <<archiveVars, params, loopVars, attemptVars, fatalVars, traceVars,
                   machineVars>>

(* a wait_for_beam_power_low that waits again when wait timed out *)
BeamPowerLowReturnWaitsAgain ==
    /\ pc = "wait_return"
    /\ waitFor = "beam_power_low"
    /\ IF waitResult = <<TRUE>>
       THEN /\ pc' = ret
            /\ ret' = "none"
            /\ WaitEnd
       ELSE /\ ret' = ret
            /\ clock' = 0
            /\ waitFor' = waitFor
            /\ interval' = interval
            /\ deadline' = BeamPowerLowTimeout
            /\ waitResult' = <<>>
            /\ probe' = [probe EXCEPT !.start = 0, !.evals = 0, !.sleeps = 0]
            /\ pc' = "wait_predicate"
    /\ UNCHANGED <<archiveVars, params, loopVars, attemptVars, fatalVars, traceVars,
                   machineVars>>

(* lines 36, 39-43: wait has returned to wait_for_beam_power_low *)
BeamPowerLowReturn ==
    /\ pc = "wait_return"
    /\ waitFor = "beam_power_low"
    /\ IF waitResult = <<TRUE>>
       THEN pc' = ret
       ELSE pc' = "beam_power_low_clear"
    /\ ret' = "none"
    /\ WaitEnd
    /\ UNCHANGED <<archiveVars, params, loopVars, attemptVars, fatalVars, traceVars,
                   machineVars>>

(* line 40 *)
BeamPowerLowClear ==
    /\ pc = "beam_power_low_clear"
    /\ lastCall' = Call("clear_exposure_queue", <<>>, <<>>)
    /\ pc' = "beam_power_low_error"
    /\ UNCHANGED <<archiveVars, params, clock, waitVars, loopVars, attemptVars,
                   fatalVars, traceVars, recoatCount, exposureCount, layerExposures,
                   probe>>

(* line 41 *)
BeamPowerLowError ==
    /\ pc = "beam_power_low_error"
    /\ raised' = <<MsgBeamPowerLow>>
    /\ pc' = "aborted"
    /\ UNCHANGED <<archiveVars, params, clock, waitVars, loopVars, attemptVars,
                   message, traceVars, machineVars, probe>>

(* a recoat whose failure is ignored *)
RecoatIgnoresFailure ==
    /\ pc = "recoat"
    /\ recoatCount' = recoatCount + 1
    /\ \E done \in BOOLEAN :
         /\ lastCall' = Call("recoat_cycle",
                             <<build_info.layerDefaults.layerFeed>>, <<done>>)
         /\ activity' = "Recoat cycle"
         /\ pc' = "beam_after_recoat"
         /\ UNCHANGED message
    /\ UNCHANGED <<archiveVars, params, clock, waitVars, loopVars, attemptVars,
                   raised, layersTrace, exposureCount, layerExposures, probe>>

(* lines 131-134 *)
Recoat ==
    /\ pc = "recoat"
    /\ recoatCount' = recoatCount + 1
    /\ \E done \in BOOLEAN :
         /\ lastCall' = Call("recoat_cycle",
                             <<build_info.layerDefaults.layerFeed>>, <<done>>)
         /\ IF done
            THEN /\ activity' = "Recoat cycle"
                 /\ pc' = "beam_after_recoat"
                 /\ UNCHANGED message
            ELSE Logfatal(MsgLayerfeed)
    /\ UNCHANGED <<archiveVars, params, clock, waitVars, loopVars, attemptVars,
                   raised, layersTrace, exposureCount, layerExposures, probe>>

(* lines 136-145: the beam after recoating, then the locals of the retry loop *)
BeamAfterRecoat ==
    /\ pc = "beam_after_recoat"
    /\ \E beamOn \in BOOLEAN, restarted \in BOOLEAN :
         /\ lastCall' = IF beamOn THEN Call("beam_is_on", <<>>, <<TRUE>>)
                        ELSE Call("restartHV", <<RestartTimeout>>, <<restarted>>)
         /\ IF ~beamOn /\ ~restarted
            THEN /\ Logfatal(MsgBeamOn)
                 /\ UNCHANGED <<layerDone, retryCount>>
            ELSE /\ activity' = IF beamOn THEN activity
                                ELSE "Beam was off after recoating. Turning it on!"
                 /\ layerDone' = FALSE
                 /\ retryCount' = 0
                 /\ pc' = "while_not_done"
                 /\ UNCHANGED message
    /\ UNCHANGED <<archiveVars, params, clock, waitVars, index, newPowderLayer,
                   err_id, attemptVars, raised, layersTrace, recoatCount,
                   exposureCount, layerExposures, probe>>

(* lines 146-181: a new attempt: fresh lists, PreHeatRepetitions is read,
   the jump safe and the melt patterns are built *)
JumpSafeAndMelt ==
    /\ pc = "while_not_done"
    /\ currentJumpSafeReps' = <<GetField(PreHeatRepetitions)>>
    /\ fieldReads' = [n \in DOMAIN fieldReads |->
                        IF n = PreHeatRepetitions THEN 1 ELSE 0]
    /\ heatBalanceRepetitions' = <<>>
    /\ jumpSafePatterns' = JumpSafeList(layer, GetField(PreHeatRepetitions))
    /\ spatterSafePatterns' = SpatterSafeList(layer)
    /\ meltPatterns' = MeltList(layer)
    /\ heatBalancePatterns' = <<>>
    /\ err_id' = <<>>
    /\ pc' = "heat_balance"
    /\ UNCHANGED <<archiveVars, params, clock, waitVars, index, layerDone, retryCount,
                   newPowderLayer, fatalVars, traceVars, machineVars, probe>>

(* lines 192-201: PostHeatRepetitions is read, the heat balance patterns are built *)
HeatBalance ==
    /\ pc = "heat_balance"
    /\ heatBalanceRepetitions' = <<GetField(PostHeatRepetitions)>>
    /\ fieldReads' = [fieldReads EXCEPT ![PostHeatRepetitions] = @ + 1]
    /\ heatBalancePatterns' = HeatBalanceList(layer, GetField(PostHeatRepetitions))
    /\ pc' = "exposure"
    /\ UNCHANGED <<archiveVars, params, clock, waitVars, loopVars, currentJumpSafeReps,
                   jumpSafePatterns, spatterSafePatterns, meltPatterns, fatalVars,
                   traceVars, machineVars, probe>>

ExposureArgsMeltFirst(js, ss, m, hb) == <<m, ss, js, hb>>

(* lines 205-206: the arguments of start_process_step_exposures *)
ExposureArgs(js, ss, m, hb) == <<js, ss, m, hb>>

(* lines 204-225: the four groups are submitted, the result is classified *)
ExposureStep(results) ==
    /\ pc = "exposure"
    /\ \E e \in results :
         /\ lastCall' = Call("start_process_step_exposures",
                             ExposureArgs(jumpSafePatterns, spatterSafePatterns,
                                          meltPatterns, heatBalancePatterns),
                             <<e>>)
         /\ err_id' = <<e>>
         /\ layerDone' = LayerDoneAfter(e)
         /\ newPowderLayer' = NewPowderAfter(e, newPowderLayer)
         /\ activity' = IF e = 0 THEN "Exposing OBP files of layer"
                        ELSE ArcTripMessage(e)
         /\ pc' = IF e # 0 THEN "arc_trip_clear" ELSE "retry_count"
    /\ exposureCount' = IF exposureCount > num_layers THEN exposureCount
                        ELSE exposureCount + 1
    /\ layerExposures' = layerExposures + 1
    /\ UNCHANGED <<archiveVars, params, clock, waitVars, index, retryCount,
                   attemptVars, fatalVars, layersTrace, recoatCount, probe>>

Exposure == ExposureStep(ExposureResults)

(* lines 226-227 *)
ArcTripClear ==
    /\ pc = "arc_trip_clear"
    /\ lastCall' = Call("clear_exposure_queue", <<>>, <<>>)
    /\ pc' = "arc_trip_restart"
    /\ UNCHANGED <<archiveVars, params, clock, waitVars, loopVars, attemptVars,
                   fatalVars, traceVars, recoatCount, exposureCount, layerExposures,
                   probe>>

(* a recovery whose failure is ignored *)
ArcTripRestartIgnoresFailure ==
    /\ pc = "arc_trip_restart"
    /\ \E restarted \in BOOLEAN :
         /\ lastCall' = Call("restart_after_arc_trip",
                             <<newPowderLayer, RestartTimeout>>, <<restarted>>)
         /\ pc' = "retry_count"
         /\ UNCHANGED <<message, activity>>
    /\ UNCHANGED <<archiveVars, params, clock, waitVars, loopVars, attemptVars,
                   raised, layersTrace, recoatCount, exposureCount, layerExposures,
                   probe>>

(* lines 228-230 *)
ArcTripRestart ==
    /\ pc = "arc_trip_restart"
    /\ \E restarted \in BOOLEAN :
         /\ lastCall' = Call("restart_after_arc_trip",
                             <<newPowderLayer, RestartTimeout>>, <<restarted>>)
         /\ IF restarted
            THEN pc' = "retry_count" /\ UNCHANGED <<message, activity>>
            ELSE Logfatal(MsgArcTrip)
    /\ UNCHANGED <<archiveVars, params, clock, waitVars, loopVars, attemptVars,
                   raised, layersTrace, recoatCount, exposureCount, layerExposures,
                   probe>>

(* lines 232-239: the retry count, its bound, and the end of the loop body;
   when the layer is done the locals of the for body go out of scope *)
RetryCount ==
    /\ pc = "retry_count"
    /\ LET count == NextRetryCount(retryCount, layerDone) IN
         IF RetryBoundExceeded(count)
         THEN /\ retryCount' = count
              /\ Logfatal(MsgMaxRetry)
              /\ UNCHANGED <<layerDone, err_id, attemptVars>>
         ELSE IF layerDone
         THEN /\ pc' = "for_layers"
              /\ retryCount' = 0
              /\ layerDone' = FALSE
              /\ err_id' = <<>>
              /\ currentJumpSafeReps' = <<>>
              /\ heatBalanceRepetitions' = <<>>
              /\ jumpSafePatterns' = <<>>
              /\ spatterSafePatterns' = <<>>
              /\ meltPatterns' = <<>>
              /\ heatBalancePatterns' = <<>>
              /\ fieldReads' = [n \in DOMAIN fieldReads |-> 0]
              /\ UNCHANGED <<message, activity>>
         ELSE /\ pc' = "while_not_done"
              /\ retryCount' = count
              /\ UNCHANGED <<layerDone, err_id, attemptVars, message, activity>>
    /\ UNCHANGED <<archiveVars, params, clock, waitVars, index, newPowderLayer,
                   raised, layersTrace, machineVars, probe>>

(* lines 121, 243-245: no layer is left; teardown up to the call of wait *)
Teardown ==
    /\ pc = "for_layers"
    /\ ~HasNextLayer(index)
    /\ lastCall' = Call("clear_exposure_queue", <<>>, <<>>)
    /\ activity' = "Waiting for beam power low"
    /\ ret' = "beam_off"
    /\ WaitCall("beam_power_low", BeamPowerLowTimeout, Ticks(DefaultInterval))
    /\ UNCHANGED <<archiveVars, params, clock, loopVars, attemptVars, fatalVars,
                   layersTrace, recoatCount, exposureCount, layerExposures>>

(* lines 246-247 *)
BeamOff ==
    /\ pc = "beam_off"
    /\ activity' = "Turning off the beam"
    /\ lastCall' = Call("beam_off", <<>>, <<>>)
    /\ pc' = "power_off"
    /\ UNCHANGED <<archiveVars, params, clock, waitVars, loopVars, attemptVars,
                   fatalVars, layersTrace, recoatCount, exposureCount,
                   layerExposures, probe>>

(* lines 248-250 *)
PowerOff ==
    /\ pc = "power_off"
    /\ lastCall' = Call("power_off", <<>>, <<>>)
    /\ activity' = "Build finished"
    /\ pc' = "done"
    /\ UNCHANGED <<archiveVars, params, clock, waitVars, loopVars, attemptVars,
                   fatalVars, layersTrace, recoatCount, exposureCount,
                   layerExposures, probe>>

(* a logfatal that raises without clearing the exposure queue *)
LogfatalRaisesWithoutClear ==
    /\ pc = "logfatal_clear"
    /\ lastCall' = lastCall
    /\ pc' = "logfatal_error"
    /\ UNCHANGED <<archiveVars, params, clock, waitVars, loopVars, attemptVars,
                   fatalVars, traceVars, recoatCount, exposureCount, layerExposures,
                   probe>>

(* line 57: logfatal clears the exposure queue *)
LogfatalClear ==
    /\ pc = "logfatal_clear"
    /\ lastCall' = Call("clear_exposure_queue", <<>>, <<>>)
    /\ pc' = "logfatal_error"
    /\ UNCHANGED <<archiveVars, params, clock, waitVars, loopVars, attemptVars,
                   fatalVars, traceVars, recoatCount, exposureCount, layerExposures,
                   probe>>

(* line 58: error(message) ends the script *)
LogfatalError ==
    /\ pc = "logfatal_error"
    /\ raised' = <<message>>
    /\ pc' = "aborted"
    /\ UNCHANGED <<archiveVars, params, clock, waitVars, loopVars, attemptVars,
                   message, traceVars, machineVars, probe>>

Next ==
    \/ OperatorPublish
    \/ PublishLayers
    \/ PublishPreHeat
    \/ PublishPostHeat
    \/ TurnOnBeam
    \/ StartHeat
    \/ PreheatPredicate
    \/ WaitSleep
    \/ PreheatReturn
    \/ ClearQueue
    \/ NextLayer
    \/ BeamPowerLowPredicate
    \/ BeamPowerLowReturn
    \/ BeamPowerLowClear
    \/ BeamPowerLowError
    \/ Recoat
    \/ BeamAfterRecoat
    \/ JumpSafeAndMelt
    \/ HeatBalance
    \/ Exposure
    \/ ArcTripClear
    \/ ArcTripRestart
    \/ RetryCount
    \/ Teardown
    \/ BeamOff
    \/ PowerOff
    \/ LogfatalClear
    \/ LogfatalError

Spec == Init /\ [][Next]_vars

----------------------------------------------------------------------------
(* The build on a machine whose exposures never trip: every call of
   start_process_step_exposures answers 0 *)

ExposureFirstTry == ExposureStep({0})

NextFirstTry ==
    \/ OperatorPublish
    \/ PublishLayers
    \/ PublishPreHeat
    \/ PublishPostHeat
    \/ TurnOnBeam
    \/ StartHeat
    \/ PreheatPredicate
    \/ WaitSleep
    \/ PreheatReturn
    \/ ClearQueue
    \/ NextLayer
    \/ BeamPowerLowPredicate
    \/ BeamPowerLowReturn
    \/ BeamPowerLowClear
    \/ BeamPowerLowError
    \/ Recoat
    \/ BeamAfterRecoat
    \/ JumpSafeAndMelt
    \/ HeatBalance
    \/ ExposureFirstTry
    \/ RetryCount
    \/ Teardown
    \/ BeamOff
    \/ PowerOff
    \/ LogfatalClear
    \/ LogfatalError

SpecFirstTry == Init /\ [][NextFirstTry]_vars

----------------------------------------------------------------------------
(* The build on a machine whose calls all return and whose clock advances:
   the script is never stopped for ever before its end. The operator may
   publish at any time, or never. *)

Script == Next /\ pc' # pc

SpecFair == Init /\ [][Next]_vars /\ WF_vars(Script)

----------------------------------------------------------------------------
(* wait on its own, lines 20-33: called once with a timeout, an interval and
   a predicate that is false until probe.trueAfter ticks after the call
   (never, if <<>>) *)

TrueAfters == {<<>>} \cup {<<t>> : t \in 0..Ticks(MaxTrueAfter)}

InitWait ==
    /\ convert = Converted
    /\ pc = "call_wait"
    /\ build_info = Plan(1)
    /\ params = [n \in {PreHeatRepetitions, PostHeatRepetitions} |-> <<>>]
    /\ clock \in 0..(TicksPerSecond - 1)
    /\ waitFor = "none"
    /\ probe \in [start : {0}, evals : {0}, sleeps : {0}, trueAfter : TrueAfters]
    /\ InitCommon

TimedCall ==
    /\ pc = "call_wait"
    /\ \E timeout \in 1..MaxTimeout, ivl \in {1, Ticks(DefaultInterval)} :
         WaitCall("timed", timeout, ivl)
    /\ UNCHANGED <<archiveVars, params, clock, ret, loopVars, attemptVars,
                   fatalVars, traceVars, machineVars>>

TimedPredicate ==
    /\ pc = "wait_predicate"
    /\ waitFor = "timed"
    /\ WaitTest(/\ probe.trueAfter # <<>>
                /\ clock - probe.start >= probe.trueAfter[1])
    /\ UNCHANGED <<archiveVars, params, clock, deadline, interval, waitFor, ret,
                   loopVars, attemptVars, fatalVars, traceVars, machineVars>>

NextWait ==
    \/ TimedCall
    \/ TimedPredicate
    \/ WaitSleep

SpecWait == InitWait /\ [][NextWait]_vars

----------------------------------------------------------------------------
(* Properties *)

Fatal == {"logfatal_clear", "logfatal_error", "aborted"}

Exposed == lastCall.op = "start_process_step_exposures" /\ err_id # <<>>

(* C1: once a failed attempt has taken retryCount above maxRetryCount (10),
   the script is in logfatal with the maximum-retry message, ends with that
   error, and start_process_step_exposures is not called again. *)
C1_RetryBoundAborts ==
    /\ [](retryCount > maxRetryCount =>
            /\ pc \in Fatal
            /\ message = MsgMaxRetry
            /\ activity = MsgMaxRetry
            /\ (pc = "aborted" => raised = <<MsgMaxRetry>>))
    /\ [][retryCount > maxRetryCount =>
            /\ layerExposures' = layerExposures
            /\ exposureCount' = exposureCount
            /\ lastCall'.op # "start_process_step_exposures"]_vars

C1_Witness ==
    /\ pc = "aborted"
    /\ retryCount = maxRetryCount + 1
    /\ raised = <<MsgMaxRetry>>

(* C2, as claimed: a layer gets at most 10 exposure submissions. *)
C2_AtMostTenSubmissions == layerExposures <= 10

(* C2, amended: a layer gets at most 11 exposure submissions, the first
   attempt and at most maxRetryCount (10) retries. *)
C2_AtMostElevenSubmissions == layerExposures <= 11

C2_Witness ==
    /\ layerExposures = 11
    /\ pc = "retry_count"
    /\ retryCount = maxRetryCount

(* a step that ends the layer: the retry loop is left *)
LayerCompletes == pc = "retry_count" /\ pc' = "for_layers"

(* C3: retryCount is 0 when the first attempt of a layer starts; it returns
   to 0 exactly in the step that completes the layer (result 0, or result 4
   treated as success); any other change is an increment by one within the
   same layer after a result 1, 2 or 3. *)
C3_RetryCounter ==
    /\ [](pc = "while_not_done" /\ layerExposures = 0 => retryCount = 0)
    /\ [][LayerCompletes =>
            /\ retryCount' = 0
            /\ layerDone
            /\ err_id \in {<<0>>, <<4>>}]_vars
    /\ [][retryCount' # retryCount =>
            \/ LayerCompletes
            \/ /\ retryCount' = retryCount + 1
               /\ index' = index
               /\ ~layerDone
               /\ err_id \in {<<1>>, <<2>>, <<3>>}]_vars

C3_Witness ==
    /\ pc = "while_not_done"
    /\ index = 2
    /\ retryCount = 2
    /\ exposureCount >= 4

(* C4: the fresh-powder flag passed to restart_after_arc_trip is true after
   result 3 and false after results 1, 2 and 4 of the same attempt. *)
C4_FreshPowderFlag ==
    lastCall.op = "restart_after_arc_trip" /\ err_id # <<>> =>
        /\ err_id[1] \in 1..4
        /\ lastCall.arg[1] = <<err_id[1] = 3>>

C4_Witness ==
    /\ lastCall.op = "restart_after_arc_trip"
    /\ retryCount > 0
    /\ err_id = <<3>>
    /\ lastCall.arg[1] = <<TRUE>>

(* C5: the jumpSafe patterns submitted carry the configured repetitions plus
   the PreHeatRepetitions value read in that attempt, the heatBalance patterns
   the configured repetitions plus the PostHeatRepetitions value read in that
   attempt, and the plan is never changed. *)
C5_SubmittedRepetitions ==
    /\ [](Exposed =>
            LET js == Group(layer, "jumpSafe")
                hb == Group(layer, "heatBalance")
            IN  /\ Len(lastCall.arg[1]) = Len(js)
                /\ \A i \in 1..Len(js) :
                     lastCall.arg[1][i].repetitions
                       = js[i].repetitions + currentJumpSafeReps[1]
                /\ Len(lastCall.arg[4]) = Len(hb)
                /\ \A i \in 1..Len(hb) :
                     lastCall.arg[4][i].repetitions
                       = hb[i].repetitions + heatBalanceRepetitions[1])
    /\ [][build_info' = build_info]_vars

C5_Witness ==
    /\ Exposed
    /\ retryCount > 0
    /\ currentJumpSafeReps = <<7>>
    /\ layer.jumpSafe[1].repetitions = 2
    /\ lastCall.arg[1][1].repetitions = 9
    /\ heatBalanceRepetitions = <<3>>
    /\ layer.heatBalance[1].repetitions = 5
    /\ lastCall.arg[4][1].repetitions = 8

(* C6: on a machine whose exposures never trip, a build of n layers that
   finishes has made n recoat cycles and n exposure submissions, has published
   the progress (n,0), (n,1), ..., (n,n) in this order and the message
   "Build finished", and has raised no error. *)
C6_FirstTryBuild ==
    pc = "done" =>
        /\ recoatCount = num_layers
        /\ exposureCount = num_layers
        /\ layersTrace = [i \in 1..(num_layers + 1) |->
                            [build_layers |-> num_layers, current_layer |-> i - 1]]
        /\ activity = "Build finished"
        /\ raised = <<>>

C6_Witness ==
    /\ pc = "done"
    /\ num_layers = 3
    /\ exposureCount = 3

ProbeElapsed == clock - probe.start

ProbeTimeout == deadline - OsTime(probe.start)

(* the predicate of the probe, t ticks after the call *)
ProbeHolds(t) == probe.trueAfter # <<>> /\ t >= probe.trueAfter[1]

(* C7: wait evaluates the predicate at once and returns true without
   sleeping if it holds; it sleeps interval between evaluations; after a
   sleep it returns false, without another evaluation, once os.time() has
   reached the deadline, and evaluates again otherwise.  With timeout 5 and
   interval 1, a predicate true after 3 s makes it return true within 4 s,
   and a predicate never true makes it return false no sooner than 5 s. *)
C7_Wait ==
    waitFor = "timed" =>
        /\ ProbeElapsed = probe.sleeps * interval
        /\ (pc = "wait_predicate" =>
              /\ probe.evals = probe.sleeps
              /\ (probe.sleeps > 0 =>
                    /\ OsTime(clock) < deadline
                    /\ ~ProbeHolds(ProbeElapsed - interval)))
        /\ (pc = "wait_return" /\ ProbeHolds(0) =>
              waitResult = <<TRUE>> /\ probe.sleeps = 0 /\ probe.evals = 1)
        /\ (pc = "wait_return" /\ waitResult = <<TRUE>> =>
              ProbeHolds(ProbeElapsed) /\ probe.evals = probe.sleeps + 1)
        /\ (pc = "wait_return" /\ waitResult = <<FALSE>> =>
              /\ OsTime(clock) >= deadline
              /\ probe.sleeps > 0
              /\ probe.evals = probe.sleeps
              /\ ~ProbeHolds(ProbeElapsed - interval))
        /\ (pc = "wait_return" /\ ProbeTimeout = 5 /\ interval = Ticks(1) =>
              /\ (probe.trueAfter = <<Ticks(3)>> =>
                    waitResult = <<TRUE>> /\ ProbeElapsed <= Ticks(4))
              /\ (probe.trueAfter = <<>> =>
                    waitResult = <<FALSE>> /\ ProbeElapsed >= Ticks(5)))

C7_Witness ==
    /\ waitFor = "timed"
    /\ pc = "wait_return"
    /\ ProbeTimeout = 5
    /\ interval = Ticks(1)
    /\ probe.start = 1
    /\ probe.trueAfter = <<Ticks(3)>>
    /\ waitResult = <<TRUE>>
    /\ probe.sleeps = 3

(* C8, as claimed: no call of wait ends by an error; whenever the script is
   in logfatal or has ended with an error, no call of wait was active. *)
C8_WaitNeverRaises == pc \in Fatal => waitFor = "none"

(* C8, amended: the code of wait raises nothing and returns a boolean; a
   call of wait ends by an error only when its predicate raises one, which
   only the preheat predicate does, through logfatal, when the beam is off
   and restartHV has failed. *)
C8_WaitRaisesOnlyFromPreheat ==
    /\ (pc = "wait_return" => waitResult \in {<<TRUE>>, <<FALSE>>})
    /\ (pc \in {"beam_power_low_clear", "beam_power_low_error"} => waitFor = "none")
    /\ (pc \in Fatal /\ waitFor # "none" =>
          /\ waitFor = "preheat"
          /\ message = MsgFailedToStartBeam
          /\ (pc = "logfatal_clear" =>
                lastCall = Call("restartHV", <<RestartTimeout>>, <<FALSE>>)))

C8_Witness ==
    /\ pc = "aborted"
    /\ waitFor = "preheat"
    /\ probe.sleeps > 0
    /\ raised = <<MsgFailedToStartBeam>>

(* a step of the script; the operator's steps leave pc alone *)
ScriptStep == pc' # pc

(* C9, as claimed: the script never publishes a parameter, so no step of
   the script changes a value that has been published. *)
C9_ScriptNeverWrites ==
    [][ScriptStep =>
          \A n \in DOMAIN params : params[n] # <<>> => params'[n] = params[n]]_vars

(* C9, amended: the script publishes each parameter once, the value 0,
   at its start before the beam is turned on (lines 84-94); after that
   it only reads them. *)
C9_ScriptWritesOnlyDefaults ==
    [][ScriptStep /\ params' # params =>
          \/ /\ pc = "publish_preheat"
             /\ params' = [params EXCEPT ![PreHeatRepetitions] = <<0>>]
          \/ /\ pc = "publish_postheat"
             /\ params' = [params EXCEPT ![PostHeatRepetitions] = <<0>>]]_vars

C9_Witness ==
    /\ pc = "heat_balance"
    /\ currentJumpSafeReps = <<7>>
    /\ params[PreHeatRepetitions] = <<7>>
    /\ params[PostHeatRepetitions] = <<3>>

(* C10: every attempt reads PreHeatRepetitions and PostHeatRepetitions once
   each before it submits, and what it reads is the value published last
   at the moment of the read, whatever the operator does in between. *)
C10_ReadEveryAttempt ==
    /\ [](pc = "exposure" \/ Exposed =>
            /\ fieldReads[PreHeatRepetitions] = 1
            /\ fieldReads[PostHeatRepetitions] = 1)
    /\ [][pc = "while_not_done" /\ ScriptStep =>
            /\ pc' = "heat_balance"
            /\ currentJumpSafeReps' = params[PreHeatRepetitions]]_vars
    /\ [][pc = "heat_balance" /\ ScriptStep =>
            /\ pc' = "exposure"
            /\ heatBalanceRepetitions' = params[PostHeatRepetitions]]_vars
    /\ [][pc' = "exposure" => pc \in {"heat_balance", "exposure"}]_vars

C10_Witness ==
    /\ pc = "exposure"
    /\ retryCount > 0
    /\ currentJumpSafeReps = <<7>>
    /\ heatBalanceRepetitions = <<3>>
    /\ jumpSafePatterns[1].repetitions = 9
    /\ params[PreHeatRepetitions] = <<0>>

(* a machine call whose answer the script tests, and that answered false *)
CallFailed(c) ==
    /\ c.op \in {"restartHV", "clear_exposure_queue", "recoat_cycle",
                 "restart_after_arc_trip"}
    /\ c.result # <<>>
    /\ ~c.result[1]

(* C11: every fatal condition (a beam that cannot be started, a preheat
   timeout, a failed queue clear, a beam power low timeout, a failed recoat,
   a failed restart after recoat, a failed arc trip recovery, the retry
   bound) leads to clear_exposure_queue and then to the error, with nothing
   in between; once aborted the script calls the machine no more and
   starts no attempt. *)
C11_ClearThenAbort ==
    /\ [](pc = "aborted" => lastCall.op = "clear_exposure_queue" /\ raised # <<>>)
    /\ [][ScriptStep /\ lastCall' # lastCall /\ CallFailed(lastCall') =>
            pc' = "logfatal_clear"]_vars
    /\ [][ScriptStep /\ pc = "wait_return" /\ waitResult = <<FALSE>> =>
            pc' \in {"logfatal_clear", "beam_power_low_clear"}]_vars
    /\ [][ScriptStep /\ pc = "retry_count" /\ retryCount' > maxRetryCount =>
            pc' = "logfatal_clear"]_vars
    /\ [][ScriptStep /\ pc \in {"logfatal_clear", "beam_power_low_clear"} =>
            /\ lastCall'.op = "clear_exposure_queue"
            /\ pc' \in {"logfatal_error", "beam_power_low_error"}
            /\ UNCHANGED <<recoatCount, exposureCount, layerExposures>>]_vars
    /\ [][ScriptStep /\ pc \in {"logfatal_error", "beam_power_low_error"} =>
            /\ pc' = "aborted"
            /\ raised' # <<>>
            /\ UNCHANGED machineVars]_vars
    /\ [][pc = "aborted" =>
            /\ pc' = "aborted"
            /\ UNCHANGED <<machineVars, loopVars, attemptVars, fatalVars,
                           traceVars>>]_vars

C11_Witness ==
    /\ pc = "aborted"
    /\ raised = <<MsgArcTrip>>
    /\ index = 2
    /\ lastCall.op = "clear_exposure_queue"

(* C12: every abort is surfaced before it is raised: when the error is
   raised, the activity published last is the message of that error. *)
C12_AbortSurfaced ==
    pc = "aborted" => raised # <<>> /\ activity = raised[1]

(* the abort of wait_for_beam_power_low, lines 40-41: the activity still
   says that the script is waiting *)
C12_SilentAbort ==
    /\ pc = "aborted"
    /\ raised = <<MsgBeamPowerLow>>
    /\ activity = "Waiting for beam power low"
    /\ index = 1

(* the machine is called in this step *)
Calls(op) == lastCall' # lastCall /\ lastCall'.op = op

(* C13: teardown begins only when the last layer is done; it clears the
   exposure queue, then waits up to 30 s for a beam current <= 1.0; only
   after such a reading beam_off is called, power_off only after beam_off,
   and "Build finished" is published only after both; when the wait times
   out the build aborts and neither beam_off nor power_off is called. *)
C13_TeardownOrder ==
    /\ [][pc' = "for_layers" /\ ScriptStep =>
            \/ pc = "clear_queue" /\ index = 0
            \/ pc = "retry_count" /\ layerDone]_vars
    /\ [][ret' = "beam_off" /\ ret # "beam_off" =>
            /\ pc = "for_layers"
            /\ index = num_layers
            /\ lastCall'.op = "clear_exposure_queue"
            /\ pc' = "wait_predicate"
            /\ deadline' = OsTime(clock) + BeamPowerLowTimeout]_vars
    /\ [][ret = "beam_off" /\ ret' = "beam_off" /\ lastCall' # lastCall =>
            lastCall'.op = "get_hv_current"]_vars
    /\ [][pc' = "beam_off" /\ ScriptStep =>
            /\ pc = "wait_return"
            /\ ret = "beam_off"
            /\ waitResult = <<TRUE>>]_vars
    /\ [](pc = "beam_off" =>
            /\ index = num_layers
            /\ lastCall.op = "get_hv_current"
            /\ BeamPowerIsLow(lastCall.result))
    /\ [][Calls("beam_off") => pc = "beam_off" /\ pc' = "power_off"]_vars
    /\ [][Calls("power_off") =>
            pc = "power_off" /\ lastCall.op = "beam_off" /\ pc' = "done"]_vars
    /\ [](activity = "Build finished" => pc = "done" /\ lastCall.op = "power_off")
    /\ [][pc = "wait_return" /\ ret = "beam_off" /\ waitResult = <<FALSE>>
            /\ ScriptStep => pc' = "beam_power_low_clear"]_vars
    /\ [](lastCall.op \in {"beam_off", "power_off"} =>
            pc \in {"power_off", "done"} /\ raised = <<>>)

C13_Witness ==
    /\ pc = "done"
    /\ index = 3
    /\ activity = "Build finished"
    /\ lastCall.op = "power_off"
    /\ exposureCount > 3

(* C14: every build ends: whatever the plan, the answers of the machine and
   the values the operator publishes, the script reaches its last line or
   raises an error. *)
C14_BuildTerminates == <>(pc \in {"done", "aborted"})

C14_Witness ==
    /\ pc = "aborted"
    /\ raised = <<MsgMaxRetry>>
    /\ index = 3
    /\ params[PreHeatRepetitions] = <<7>>

(* the files of a list of patterns, in order *)
Files(patterns) == [i \in 1..Len(patterns) |-> patterns[i].file]

(* C15: every attempt submits its four lists in one call of
   start_process_step_exposures, in the order jumpSafe, spatterSafe, melt,
   heatBalance: the first argument holds the layer's jumpSafe files, the
   second is the spatterSafe list of the attempt, the third holds the
   layer's melt files, the fourth the layer's heatBalance files; this is
   so for every layer and every retry. *)
C15_GroupOrder ==
    /\ [](Exposed =>
            /\ Len(lastCall.arg) = 4
            /\ lastCall.arg[1] = jumpSafePatterns
            /\ Files(lastCall.arg[1]) = Files(Group(layer, "jumpSafe"))
            /\ lastCall.arg[2] = spatterSafePatterns
            /\ lastCall.arg[3] = meltPatterns
            /\ \A i \in 1..Len(layer.melt) :
                 \E j \in 1..Len(lastCall.arg[3]) :
                    lastCall.arg[3][j].file = layer.melt[i].file
            /\ \A j \in 1..Len(lastCall.arg[3]) :
                 \E i \in 1..Len(layer.melt) :
                    lastCall.arg[3][j].file = layer.melt[i].file
            /\ lastCall.arg[4] = heatBalancePatterns
            /\ Files(lastCall.arg[4]) = Files(Group(layer, "heatBalance")))
    /\ [][Calls("start_process_step_exposures") =>
            /\ pc = "exposure"
            /\ layerExposures' = layerExposures + 1
            /\ pc' \in {"arc_trip_clear", "retry_count"}]_vars
    /\ [][pc = "exposure" /\ ScriptStep =>
            Calls("start_process_step_exposures")]_vars

C15_Witness ==
    /\ Exposed
    /\ index = 3
    /\ retryCount = 2
    /\ Files(lastCall.arg[1]) = <<"obp/preheat.obp">>
    /\ Files(lastCall.arg[3]) = <<"obp/a.obp">>
    /\ Files(lastCall.arg[4]) = <<"obp/postheat.obp">>

(* C16: the spatterSafe list submitted holds one entry for each pattern of
   the layer's spatterSafe group, with that pattern's file, and is empty
   only when the layer has no such pattern. *)
C16_SpatterSafeSubmitted ==
    Exposed => Files(lastCall.arg[2]) = Files(Group(layer, "spatterSafe"))

(* a layer with a spatterSafe pattern, lines 172-176: the spatterSafe list
   submitted is empty and the melt patterns are submitted twice *)
C16_SpatterSafeDropped ==
    /\ Exposed
    /\ index = 2
    /\ Files(layer.spatterSafe) = <<"obp/spatter.obp">>
    /\ lastCall.arg[2] = <<>>
    /\ Files(lastCall.arg[3]) = <<"obp/a.obp", "obp/b.obp", "obp/a.obp", "obp/b.obp">>

(* a machine-path file: an obp file, plain or gzipped *)
MachinePath(file) == file.ext \in {"obp", "gz"}

(* the j-th file of the walk is a machine-path file whose name an earlier
   machine-path file of the walk has *)
DuplicateAt(w, j) ==
    /\ MachinePath(w[j].file)
    /\ \E i \in 1..(j - 1) : w[i].file = w[j].file

HasDuplicate(w) == \E j \in DOMAIN w : DuplicateAt(w, j)

(* C17: when two machine-path files under the input directory have the
   same basename, convert raises at the first file of the walk that repeats
   a basename and names it; it never opens the archive, so the file at
   output_obf is what it was (absent, or the old archive); without such a
   pair convert does not raise. *)
C17_DuplicateBasename ==
    /\ [](HasDuplicate(convert.walk) =>
            /\ convert.at \in {"walk", "raised"}
            /\ convert.output_obf \in {<<>>, <<OldArchive>>})
    /\ [](convert.at = "walk" =>
            \A j \in 1..(convert.next - 1) : ~DuplicateAt(convert.walk, j))
    /\ [](convert.at = "raised" =>
            /\ DuplicateAt(convert.walk, convert.next)
            /\ \A j \in 1..(convert.next - 1) : ~DuplicateAt(convert.walk, j)
            /\ convert.error = MsgDuplicate(convert.walk[convert.next].file))
    /\ [][convert.at = "walk" /\ convert' # convert
            /\ convert.next <= Len(convert.walk)
            /\ DuplicateAt(convert.walk, convert.next) =>
               convert'.at = "raised"]_vars
    /\ [][convert'.output_obf # convert.output_obf =>
            /\ ~HasDuplicate(convert.walk)
            /\ convert.next > Len(convert.walk)
            /\ convert.at \in {"walk", "write", "write_obp"}]_vars
    /\ [][convert.at = "raised" => convert' = convert]_vars

C17_Witness ==
    /\ convert.at = "raised"
    /\ convert.next = 3
    /\ convert.walk[1].file = Name("a", "gz")
    /\ convert.walk[2].file = Name("notes", "txt")
    /\ convert.walk[3].file = Name("a", "gz")
    /\ convert.output_obf = <<OldArchive>>

(* C18: after a HeatBalanceTrip (result 4) the layer counts as done: the
   queue is cleared, restart_after_arc_trip is called with newPowderLayer
   false, and when it succeeds the script goes on to the next layer or to
   teardown without incrementing retryCount, without the retry bound and
   without a further submission for the layer, even at retryCount = 10;
   only a failed restart aborts. *)
C18_HeatBalanceTrip ==
    /\ [][Calls("start_process_step_exposures") /\ err_id' = <<4>> =>
            /\ layerDone'
            /\ retryCount' = retryCount
            /\ newPowderLayer' = <<FALSE>>
            /\ pc' = "arc_trip_clear"]_vars
    /\ [][err_id = <<4>> /\ pc = "arc_trip_clear" /\ ScriptStep =>
            /\ Calls("clear_exposure_queue")
            /\ pc' = "arc_trip_restart"
            /\ UNCHANGED <<layerDone, retryCount, err_id, index>>]_vars
    /\ [][err_id = <<4>> /\ pc = "arc_trip_restart" /\ ScriptStep =>
            /\ lastCall'.op = "restart_after_arc_trip"
            /\ lastCall'.arg = <<<<FALSE>>, RestartTimeout>>
            /\ IF CallFailed(lastCall')
               THEN pc' = "logfatal_clear" /\ message' = MsgArcTrip
               ELSE pc' = "retry_count"
            /\ UNCHANGED <<layerDone, retryCount, err_id, index>>]_vars
    /\ [][err_id = <<4>> /\ pc = "retry_count" /\ ScriptStep =>
            /\ layerDone
            /\ NextRetryCount(retryCount, layerDone) = retryCount
            /\ pc' = "for_layers"
            /\ UNCHANGED <<index, machineVars, message, raised>>]_vars
    /\ [][pc = "for_layers" /\ ScriptStep =>
            \/ index' = index + 1 /\ layerExposures' = 0
            \/ index' = index /\ index = num_layers /\ ret' = "beam_off"]_vars
    /\ [](err_id = <<4>> =>
            \/ pc \in {"arc_trip_clear", "arc_trip_restart", "retry_count"}
            \/ pc \in Fatal /\ message = MsgArcTrip)

C18_Witness ==
    /\ pc = "retry_count"
    /\ err_id = <<4>>
    /\ retryCount = 10
    /\ layerExposures = 11
    /\ layerDone
    /\ lastCall.op = "restart_after_arc_trip"

(* the last attempt ended with a fault *)
Faulted == err_id # <<>> /\ err_id[1] # 0

(* C19: after an attempt that ended with a fault the script calls
   clear_exposure_queue, then restart_after_arc_trip with newPowderLayer
   and 60 s, and nothing else before; a failed restart aborts; nothing is
   submitted between the fault and a successful restart; retryCount is
   incremented, and compared with the bound, only after the restart has
   succeeded. *)
C19_RecoveryOrder ==
    /\ [][Calls("start_process_step_exposures") =>
            /\ pc = "exposure"
            /\ retryCount' = retryCount
            /\ IF Faulted' THEN pc' = "arc_trip_clear" ELSE pc' = "retry_count"]_vars
    /\ [][pc = "arc_trip_clear" /\ ScriptStep =>
            /\ Faulted
            /\ Calls("clear_exposure_queue")
            /\ pc' = "arc_trip_restart"
            /\ UNCHANGED <<retryCount, exposureCount, layerExposures, message>>]_vars
    /\ [][pc = "arc_trip_restart" /\ ScriptStep =>
            /\ lastCall.op = "clear_exposure_queue"
            /\ Calls("restart_after_arc_trip")
            /\ lastCall'.arg = <<newPowderLayer, RestartTimeout>>
            /\ IF CallFailed(lastCall')
               THEN pc' = "logfatal_clear" /\ message' = MsgArcTrip
               ELSE pc' = "retry_count" /\ message' = message
            /\ UNCHANGED <<retryCount, exposureCount, layerExposures>>]_vars
    /\ [][retryCount' > retryCount \/ (message' = MsgMaxRetry /\ message' # message) =>
            /\ pc = "retry_count"
            /\ Faulted
            /\ lastCall.op = "restart_after_arc_trip"
            /\ lastCall.result = <<TRUE>>]_vars
    /\ [](Faulted /\ pc \in {"retry_count", "while_not_done"} =>
            /\ lastCall.op = "restart_after_arc_trip"
            /\ lastCall.result = <<TRUE>>)

C19_Witness ==
    /\ pc = "while_not_done"
    /\ err_id = <<2>>
    /\ retryCount = 3
    /\ lastCall = Call("restart_after_arc_trip", <<<<FALSE>>, RestartTimeout>>, <<TRUE>>)

(* C20: before the first layer is started (progress with a layer index of
   1 or more, a recoat, a submission) the beam was found on or restartHV(60)
   succeeded, the preheat wait returned true on a temperature reading at or
   above the target, and the clear_exposure_queue after it succeeded; a
   failed restart in the preheat predicate, a timed-out preheat wait and a
   failed clear each end in logfatal. *)
C20_StartHeatBeforeLayers ==
    /\ [](index = 0 =>
            /\ recoatCount = 0
            /\ exposureCount = 0
            /\ \A i \in DOMAIN layersTrace : layersTrace[i].current_layer = 0)
    /\ [][index' # index /\ index = 0 => pc = "for_layers"]_vars
    /\ [][pc' = "for_layers" /\ index = 0 /\ ScriptStep =>
            /\ pc = "clear_queue"
            /\ lastCall' = Call("clear_exposure_queue", <<>>, <<TRUE>>)]_vars
    /\ [][pc' = "clear_queue" /\ ScriptStep =>
            /\ pc = "wait_return"
            /\ waitFor = "preheat"
            /\ waitResult = <<TRUE>>
            /\ lastCall.op = "get_temperature"
            /\ lastCall.result # <<>>
            /\ lastCall.result[1] >= build_info.startHeat.targetTemperature]_vars
    /\ [][waitFor' = "preheat" /\ waitFor # "preheat" =>
            /\ pc = "start_heat"
            /\ deadline' = OsTime(clock) + build_info.startHeat.timeout]_vars
    /\ [][waitFor = "preheat" /\ pc = "wait_sleep" /\ ScriptStep =>
            IF OsTime(clock') >= deadline
            THEN pc' = "wait_return" /\ waitResult' = <<FALSE>>
            ELSE pc' = "wait_predicate"]_vars
    /\ [][pc' = "start_heat" /\ ScriptStep =>
            /\ pc = "turn_on_beam"
            /\ \/ lastCall' = Call("beam_is_on", <<>>, <<TRUE>>)
               \/ lastCall' = Call("restartHV", <<RestartTimeout>>, <<TRUE>>)]_vars
    /\ [][waitFor = "preheat" /\ pc = "wait_predicate" /\ ScriptStep
            /\ lastCall'.op = "restartHV" =>
               /\ CallFailed(lastCall')
               /\ pc' = "logfatal_clear"
               /\ message' = MsgFailedToStartBeam]_vars
    /\ [][waitFor = "preheat" /\ pc = "wait_return" /\ waitResult = <<FALSE>>
            /\ ScriptStep =>
               pc' = "logfatal_clear" /\ message' = MsgTargetTemperature]_vars
    /\ [][pc = "clear_queue" /\ ScriptStep /\ CallFailed(lastCall') =>
            pc' = "logfatal_clear" /\ message' = MsgClearQueue]_vars

C20_Witness ==
    /\ index = 1
    /\ pc = "wait_predicate"
    /\ waitFor = "beam_power_low"
    /\ lastCall = Call("clear_exposure_queue", <<>>, <<TRUE>>)
    /\ layersTrace[Len(layersTrace)].current_layer = 1

(* the positions of the while loop of a layer, lines 146-238 *)
InAttempts ==
    {"while_not_done", "heat_balance", "exposure", "arc_trip_clear",
     "arc_trip_restart", "retry_count"}

(* C21: recoat_cycle is called once for a layer, after the entry wait of
   that layer returned on a beam current <= 1.0, and not again in the
   retries of the layer; the first submission of the layer comes only after
   the recoat succeeded and the beam was then found on or restartHV(60)
   succeeded; a timed-out entry wait, a failed recoat and a failed restart
   end the build before anything of the layer is submitted. *)
C21_RecoatOncePerLayer ==
    /\ [](index >= 1 => recoatCount \in {index - 1, index})
    /\ [](pc \in InAttempts \cup {"beam_after_recoat", "for_layers"} =>
            recoatCount = index)
    /\ [](recoatCount < index => layerExposures = 0)
    /\ [][Calls("recoat_cycle") =>
            /\ pc = "recoat"
            /\ recoatCount' = recoatCount + 1
            /\ lastCall.op = "get_hv_current"
            /\ BeamPowerIsLow(lastCall.result)
            /\ layerExposures = 0
            /\ IF CallFailed(lastCall')
               THEN pc' = "logfatal_clear" /\ message' = MsgLayerfeed
               ELSE pc' = "beam_after_recoat"]_vars
    /\ [][recoatCount' # recoatCount => Calls("recoat_cycle")]_vars
    /\ [][pc' = "recoat" /\ ScriptStep =>
            /\ pc = "wait_return"
            /\ waitFor = "beam_power_low"
            /\ waitResult = <<TRUE>>]_vars
    /\ [][pc = "wait_return" /\ ret = "recoat" /\ waitResult = <<FALSE>>
            /\ ScriptStep =>
               pc' = "beam_power_low_clear" /\ layerExposures = 0]_vars
    /\ [][pc = "beam_after_recoat" /\ ScriptStep =>
            /\ lastCall = Call("recoat_cycle",
                               <<build_info.layerDefaults.layerFeed>>, <<TRUE>>)
            /\ layerExposures = 0
            /\ \/ /\ lastCall' = Call("beam_is_on", <<>>, <<TRUE>>)
                  /\ pc' = "while_not_done"
               \/ /\ lastCall' = Call("restartHV", <<RestartTimeout>>, <<TRUE>>)
                  /\ pc' = "while_not_done"
               \/ /\ lastCall' = Call("restartHV", <<RestartTimeout>>, <<FALSE>>)
                  /\ pc' = "logfatal_clear"
                  /\ message' = MsgBeamOn]_vars
    /\ [][pc' = "while_not_done" /\ ScriptStep =>
            pc \in {"beam_after_recoat", "retry_count"}]_vars
    /\ [](message \in {MsgLayerfeed, MsgBeamOn} => layerExposures = 0)

C21_Witness ==
    /\ pc = "retry_count"
    /\ index = 2
    /\ retryCount = 3
    /\ layerExposures = 4
    /\ recoatCount = 2

(* C22: the melt list submitted is the melt list of the layer: the same
   patterns, once each, in the same order, with the same repetitions,
   whether or not the layer has spatterSafe patterns. *)
C22_MeltAsConfigured ==
    Exposed => lastCall.arg[3] = layer.melt

(* a layer with a spatterSafe pattern, lines 172-181: both loops append
   the melt patterns, so the melt list submitted is twice the layer's *)
C22_MeltTwice ==
    /\ Exposed
    /\ index = 2
    /\ "spatterSafe" \in DOMAIN layer
    /\ Len(layer.melt) = 2
    /\ lastCall.arg[3] = layer.melt \o layer.melt

(* the melt files layer k (from 0) takes: those of entry k mod len(files) *)
CycledMelt(files, k) ==
    LET entry == files[(k % Len(files)) + 1]
        names == IF entry.isList THEN entry.value ELSE <<entry.value[1]>>
    IN  [i \in 1..Len(names) |->
           [file |-> <<Name("obp", ""), names[i][Len(names[i])]>>, repetitions |-> 1]]

(* C23: for every build description the layer loop of convert ends, with
   exactly build.layers layers, layer k (from 0) holding the melt files of
   entry k mod len(files) of build.files; so also when build.layers is more
   than 0 and build.files is empty. *)
C23_LayerLoopEnds ==
    /\ <>(convert.at = "walk")
    /\ [](convert.at = "walk" =>
            /\ Len(convert.layers) = convert.build_layers
            /\ \A k \in 0..(convert.build_layers - 1) :
                 convert.layers[k + 1].melt = CycledMelt(convert.files, k))

(* build.layers is more than 0 and build.files is empty: the for loop has
   nothing to run over, the while loop goes round with no layer made *)
C23_EmptyFileList ==
    /\ convert.at = "for_files"
    /\ convert.files = <<>>
    /\ convert.build_layers > 0
    /\ convert.layers = <<>>

====
